---- MODULE Spec2Model ----
(***************************************************************************)
(* Model of scripts/batch_runner.py: the batch planner                     *)
(* (range(start_offset, total_records, batch_size)), the per-batch trigger *)
(* trigger_dag_run and the dispatch engine run_batch_processing in its     *)
(* sequential (parallel == 1) and ThreadPoolExecutor modes.                *)
(***************************************************************************)
EXTENDS Integers, Sequences, FiniteSets, TLC

\* ------------------------------------------------------------ bounds
MaxTotal == 3
MaxBatchSize == 2
MaxStart == 1
MaxParallel == 3
\* bounds of the planner-only specification PlanSpec
MaxPlanTotal == 10
MaxPlanBatchSize == 4
MaxPlanStart == 11

\* ------------------------------------------------------------ values
\* How subprocess.run(cmd, ..., timeout=30) can end: return code 0, a non-zero
\* return code, the executable cannot be started (FileNotFoundError/OSError),
\* the wait times out (TimeoutExpired), any other Exception.
Completion == {"rc_zero", "rc_nonzero", "cannot_start", "timeout", "exception"}
Faults == {"cannot_start", "timeout", "exception"}

\* The "status" values trigger_dag_run returns.
Terminal == {"triggered", "failed", "error", "dry_run"}

\* --delay (a float): only its sign matters to the code (line 75)
DelayValues == {-1, 0, 1}

\* ------------------------------------------------------------ pure helpers
\* list(range(start, stop, step)) for step > 0
RECURSIVE RangeInclusive(_, _, _)
RangeInclusive(start, stop, step) ==
    IF start <= stop THEN <<start>> \o RangeInclusive(start + step, stop, step)
    ELSE <<>>

RECURSIVE RangeDropTail(_, _, _)
RangeDropTail(start, stop, step) ==
    IF start < stop - step
    THEN <<start>> \o RangeDropTail(start + step, stop, step)
    ELSE <<>>

RECURSIVE Range(_, _, _)
Range(start, stop, step) ==
    IF start < stop THEN <<start>> \o Range(start + step, stop, step)
    ELSE <<>>

\* `except Exception as e`: which ways of ending subprocess.run are caught
CaughtTimeoutOnly(c) == c = "timeout"

CaughtNothing(c) == FALSE

Caught(c) == c \in Faults

\* the status trigger_dag_run produces for a completed subprocess.run;
\* "raised" stands for an exception leaving trigger_dag_run
ClassifySwapped(c) ==
    IF c = "rc_zero" THEN "triggered"
    ELSE IF c = "rc_nonzero" THEN "error"
    ELSE IF Caught(c) THEN "failed"
    ELSE "raised"

Classify(c) ==
    IF c = "rc_zero" THEN "triggered"
    ELSE IF c = "rc_nonzero" THEN "failed"
    ELSE IF Caught(c) THEN "error"
    ELSE "raised"

\* results = {"triggered": 0, "failed": 0}
InitialResultsEmpty == [k \in {} |-> 0]

InitialResults == [k \in {"triggered", "failed"} |-> 0]

\* d.get(k, 0)
Get(d, k) == IF k \in DOMAIN d THEN d[k] ELSE 0

\* results[status] = results.get(status, 0) + 1
FoldOverwrite(res, status) ==
    [k \in DOMAIN res \cup {status} |-> IF k = status THEN 1 ELSE res[k]]

FoldFresh(res, status) == [k \in {status} |-> Get(res, status) + 1]

Fold(res, status) ==
    [k \in DOMAIN res \cup {status} |->
        IF k = status THEN Get(res, status) + 1 ELSE res[k]]

\* ------------------------------------------------------------ state
VARIABLES
    cfg,         \* the arguments of run_batch_processing
    pc,          \* position of the thread running run_batch_processing
    offsets,     \* the planned offsets (line 51)
    i,           \* loop index of the for loop / of the submitting comprehension (1-based)
    results,     \* the summary dict
    state,       \* per planned batch: "planned", "invoking", a status, or "raised"
    completion,  \* per planned batch: how its subprocess.run ended ("none" before)
    queue,       \* the executor's work queue (FIFO of batch indices)
    running,     \* batches whose trigger_dag_run call is in progress
    callOrder,   \* batch indices in the order trigger_dag_run was entered
    execs,       \* per planned batch: number of subprocess.run executions
    foldOrder,   \* batch indices in the order their status was counted
    sleeps,      \* number of time.sleep(delay) calls
    message,     \* per planned batch: the "error" entry of the returned dict
    sizeArg      \* per planned batch: the batch_size passed for it (0 before)

vars == <<cfg, pc, offsets, i, results, state, completion, queue, running,
          callOrder, execs, foldOrder, sleeps, message, sizeArg>>

NumBatches == Len(offsets)
Batches == 1..NumBatches
Folded(b) == \E j \in 1..Len(foldOrder) : foldOrder[j] = b
Called(b) == \E j \in 1..Len(callOrder) : callOrder[j] = b
Finished(b) == state[b] \in Terminal \cup {"raised"}

Configs ==
    [total : 0..MaxTotal, batchSize : 1..MaxBatchSize, parallel : 1..MaxParallel,
     startOffset : 0..MaxStart, delay : DelayValues, dryRun : BOOLEAN]

PlanConfigs ==
    [total : 0..MaxPlanTotal, batchSize : 1..MaxPlanBatchSize, parallel : {1},
     startOffset : 0..MaxPlanStart, delay : {0}, dryRun : {TRUE}]

InitWith(c) ==
    /\ cfg = c
    /\ pc = "start"
    /\ offsets = <<>>
    /\ i = 1
    /\ results = [k \in {} |-> 0]
    /\ state = <<>>
    /\ completion = <<>>
    /\ queue = <<>>
    /\ running = {}
    /\ callOrder = <<>>
    /\ execs = <<>>
    /\ foldOrder = <<>>
    /\ sleeps = 0
    /\ message = <<>>
    /\ sizeArg = <<>>

Init == \E c \in Configs : InitWith(c)

InitPlan == \E c \in PlanConfigs : InitWith(c)

\* ------------------------------------------------------------ run_batch_processing
\* lines 51-69: plan the offsets, create the summary, choose the mode
Plan ==
    /\ pc = "start"
    /\ offsets' = Range(cfg.startOffset, cfg.total, cfg.batchSize)
    /\ results' = InitialResults
    /\ state' = [b \in 1..Len(offsets') |-> "planned"]
    /\ completion' = [b \in 1..Len(offsets') |-> "none"]
    /\ execs' = [b \in 1..Len(offsets') |-> 0]
    /\ message' = [b \in 1..Len(offsets') |-> "none"]
    /\ sizeArg' = [b \in 1..Len(offsets') |-> 0]
    /\ pc' = IF cfg.parallel = 1 THEN "seq_loop"
             ELSE IF Len(offsets') = 0 THEN "collect" ELSE "submit"
    /\ UNCHANGED <<cfg, i, queue, running, callOrder, foldOrder, sleeps>>

\* ------------------------------------------------------------ trigger_dag_run
\* line 24: `if dry_run:`
DryRunIgnored(dryRun) == FALSE

ShortCircuits(dryRun) == dryRun

\* lines 24-26: dry run, return {"status": "dry_run"} without running the command
TriggerDryRun(b) ==
    /\ b \in running
    /\ state[b] = "planned"
    /\ ShortCircuits(cfg.dryRun)
    /\ state' = [state EXCEPT ![b] = "dry_run"]
    /\ running' = running \ {b}
    /\ UNCHANGED <<cfg, message, sizeArg, pc, offsets, i, results, completion, queue, callOrder,
                   execs, foldOrder, sleeps>>

\* lines 28-29: subprocess.run(cmd, ..., timeout=30) is started
TriggerExec(b) ==
    /\ b \in running
    /\ state[b] = "planned"
    /\ ~ShortCircuits(cfg.dryRun)
    /\ state' = [state EXCEPT ![b] = "invoking"]
    /\ execs' = [execs EXCEPT ![b] = @ + 1]
    /\ UNCHANGED <<cfg, message, sizeArg, pc, offsets, i, results, completion, queue, running,
                   callOrder, foldOrder, sleeps>>

\* lines 35, 38: the "error" entry of the returned dict: result.stderr for a
\* non-zero return code, str(e) for a caught exception, no entry otherwise
ErrorField(c) ==
    IF c = "rc_nonzero" THEN "stderr"
    ELSE IF Caught(c) THEN "str(e)"
    ELSE "none"

\* lines 29-38: subprocess.run ends in one of the ways of Completion and
\* trigger_dag_run returns the status (or lets the exception out)
TriggerCompleteRetry(b) ==
    /\ b \in running
    /\ state[b] = "invoking"
    /\ \E c \in Completion :
        /\ completion' = [completion EXCEPT ![b] = c]
        /\ state' = [state EXCEPT ![b] =
                        IF Classify(c) = "failed" /\ execs[b] < 2
                        THEN "planned" ELSE Classify(c)]
        /\ running' = IF Classify(c) = "failed" /\ execs[b] < 2
                      THEN running ELSE running \ {b}
        /\ message' = [message EXCEPT ![b] = ErrorField(c)]
    /\ UNCHANGED <<cfg, sizeArg, pc, offsets, i, results, queue, callOrder, execs,
                   foldOrder, sleeps>>

TriggerCompleteCounting(b) ==
    /\ b \in running
    /\ state[b] = "invoking"
    /\ \E c \in Completion :
        /\ completion' = [completion EXCEPT ![b] = c]
        /\ state' = [state EXCEPT ![b] = Classify(c)]
        /\ message' = [message EXCEPT ![b] = ErrorField(c)]
        /\ results' = Fold(results, Classify(c))
    /\ running' = running \ {b}
    /\ UNCHANGED <<cfg, sizeArg, pc, offsets, i, queue, callOrder, execs,
                   foldOrder, sleeps>>

TriggerComplete(b) ==
    /\ b \in running
    /\ state[b] = "invoking"
    /\ \E c \in Completion :
        /\ completion' = [completion EXCEPT ![b] = c]
        /\ state' = [state EXCEPT ![b] = Classify(c)]
        /\ message' = [message EXCEPT ![b] = ErrorField(c)]
    /\ running' = running \ {b}
    /\ UNCHANGED <<cfg, sizeArg, pc, offsets, i, results, queue, callOrder, execs,
                   foldOrder, sleeps>>

\* ------------------------------------------------------------ run_batch_processing
\* lines 72, 81: the batch_size argument passed to trigger_dag_run for batch b
BatchSizeClipped(b) ==
    IF offsets[b] + cfg.batchSize > cfg.total THEN cfg.total - offsets[b]
    ELSE cfg.batchSize

BatchSizeArg(b) == cfg.batchSize

\* ------------------------------------------------------------ sequential mode
\* line 71: the batch the for loop visits at position idx (1-based)
LoopBatchReversed(idx) == NumBatches + 1 - idx

LoopBatch(idx) == idx

\* line 75: `not dry_run and delay > 0 and i < len(offsets) - 1` (i 0-based)
ShouldSleepAlways(idx) == ~cfg.dryRun /\ cfg.delay > 0

ShouldSleep(idx) == ~cfg.dryRun /\ cfg.delay > 0 /\ idx - 1 < NumBatches - 1

\* lines 71-72: the loop calls trigger_dag_run for the next offset
SeqCall ==
    /\ pc = "seq_loop"
    /\ i <= NumBatches
    /\ running' = running \cup {LoopBatch(i)}
    /\ callOrder' = Append(callOrder, LoopBatch(i))
    /\ sizeArg' = [sizeArg EXCEPT ![LoopBatch(i)] = BatchSizeArg(LoopBatch(i))]
    /\ pc' = "seq_call"
    /\ UNCHANGED <<cfg, message, offsets, i, results, state, completion, queue, execs,
                   foldOrder, sleeps>>

\* lines 73-76: trigger_dag_run has returned; count its status, then sleep
\* or go on to the next offset. An exception out of trigger_dag_run leaves
\* run_batch_processing.
SeqFold ==
    /\ pc = "seq_call"
    /\ LoopBatch(i) \notin running
    /\ Finished(LoopBatch(i))
    /\ IF state[LoopBatch(i)] = "raised"
       THEN /\ pc' = "aborted"
            /\ UNCHANGED <<i, results, foldOrder, sleeps>>
       ELSE /\ results' = Fold(results, state[LoopBatch(i)])
            /\ foldOrder' = Append(foldOrder, LoopBatch(i))
            /\ IF ShouldSleep(i)
               THEN /\ pc' = "sleep"
                    /\ sleeps' = sleeps + 1
                    /\ i' = i
               ELSE /\ pc' = "seq_loop"
                    /\ sleeps' = sleeps
                    /\ i' = i + 1
    /\ UNCHANGED <<cfg, message, sizeArg, offsets, state, completion, queue, running, callOrder,
                   execs>>

\* line 76: time.sleep(delay) returns
SeqWake ==
    /\ pc = "sleep"
    /\ pc' = "seq_loop"
    /\ i' = i + 1
    /\ UNCHANGED <<cfg, message, sizeArg, offsets, results, state, completion, queue, running,
                   callOrder, execs, foldOrder, sleeps>>

\* ------------------------------------------------------------ parallel mode
\* line 79: ThreadPoolExecutor(max_workers=parallel): a worker thread is free
\* to take a work item
WorkerFreeUnbounded == TRUE

WorkerFree == Cardinality(running) < cfg.parallel

\* lines 80-83: executor.submit(trigger_dag_run, offset, batch_size, dry_run)
\* for the next offset
Submit ==
    /\ pc = "submit"
    /\ i <= NumBatches
    /\ queue' = Append(queue, i)
    /\ i' = i + 1
    /\ sizeArg' = [sizeArg EXCEPT ![i] = BatchSizeArg(i)]
    /\ pc' = IF i = NumBatches THEN "collect" ELSE "submit"
    /\ UNCHANGED <<cfg, message, offsets, results, state, completion, running,
                   callOrder, execs, foldOrder, sleeps>>

\* a pool worker takes the oldest work item and calls trigger_dag_run
WorkerTake ==
    /\ queue # <<>>
    /\ WorkerFree
    /\ running' = running \cup {Head(queue)}
    /\ callOrder' = Append(callOrder, Head(queue))
    /\ queue' = Tail(queue)
    /\ UNCHANGED <<cfg, message, sizeArg, pc, offsets, i, results, state, completion, execs,
                   foldOrder, sleeps>>

\* lines 85-87: as_completed yields a finished future; count its status.
\* future.result() re-raises an exception that left trigger_dag_run.
CollectLossy(b) ==
    /\ pc = "collect"
    /\ b \notin running
    /\ Finished(b)
    /\ ~Folded(b)
    /\ results' = IF running = {} THEN Fold(results, state[b]) ELSE results
    /\ foldOrder' = Append(foldOrder, b)
    /\ UNCHANGED <<cfg, message, sizeArg, pc, offsets, i, state, completion, queue, running,
                   callOrder, execs, sleeps>>

CollectThrottled(b) ==
    /\ pc = "collect"
    /\ b \notin running
    /\ Finished(b)
    /\ ~Folded(b)
    /\ state[b] # "raised"
    /\ results' = Fold(results, state[b])
    /\ foldOrder' = Append(foldOrder, b)
    /\ sleeps' = IF ~cfg.dryRun /\ cfg.delay > 0 THEN sleeps + 1 ELSE sleeps
    /\ UNCHANGED <<cfg, message, sizeArg, pc, offsets, i, state, completion,
                   queue, running, callOrder, execs>>

Collect(b) ==
    /\ pc = "collect"
    /\ b \notin running
    /\ Finished(b)
    /\ ~Folded(b)
    /\ IF state[b] = "raised"
       THEN /\ pc' = "aborted"
            /\ UNCHANGED <<results, foldOrder>>
       ELSE /\ results' = Fold(results, state[b])
            /\ foldOrder' = Append(foldOrder, b)
            /\ pc' = pc
    /\ UNCHANGED <<cfg, message, sizeArg, offsets, i, state, completion, queue, running,
                   callOrder, execs, sleeps>>

\* line 85: as_completed(futures) is exhausted: every future has been yielded
AnyCollected == NumBatches = 0 \/ \E b \in Batches : Folded(b)

AllCollected == \A b \in Batches : Folded(b)

\* lines 89-93: the loop (either mode) is over; return results
Return ==
    /\ \/ pc = "seq_loop" /\ i > NumBatches
       \/ pc = "collect" /\ AllCollected
    /\ pc' = "returned"
    /\ UNCHANGED <<cfg, message, sizeArg, offsets, i, results, state, completion, queue, running,
                   callOrder, execs, foldOrder, sleeps>>

Next ==
    \/ Plan
    \/ \E b \in Batches : TriggerDryRun(b)
    \/ \E b \in Batches : TriggerExec(b)
    \/ \E b \in Batches : TriggerComplete(b)
    \/ SeqCall
    \/ SeqFold
    \/ SeqWake
    \/ Submit
    \/ WorkerTake
    \/ \E b \in Batches : Collect(b)
    \/ Return

Spec == Init /\ [][Next]_vars

\* Every thread that can take a step eventually takes one: the threads are
\* scheduled, subprocess.run ends or times out, time.sleep returns.
LiveSpec == Init /\ [][Next]_vars /\ WF_vars(Next)

NextPlan == Plan

PlanSpec == InitPlan /\ [][NextPlan]_vars

\* ------------------------------------------------------------ properties
\* sum(results.values())
RECURSIVE SumOver(_, _)
SumOver(d, keys) ==
    IF keys = {} THEN 0
    ELSE LET k == CHOOSE x \in keys : TRUE
         IN d[k] + SumOver(d, keys \ {k})

SumCounts(d) == SumOver(d, DOMAIN d)
Occurrences(seq, b) == Cardinality({j \in 1..Len(seq) : seq[j] = b})
Invoking == {b \in DOMAIN state : state[b] = "invoking"}
CountWhere(status) == Cardinality({b \in DOMAIN state : state[b] = status})
CeilDiv(a, b) == (a + b - 1) \div b
Max0(a) == IF a > 0 THEN a ELSE 0

\* C1: when run_batch_processing returns, in either mode, the counts of the
\* returned summary sum to the number of planned batches.
SummarySumsToPlanned ==
    pc = "returned" => SumCounts(results) = NumBatches

\* a parallel run returned after three batches with three different outcomes
\* counted out of planned order
SummarySumsWitness ==
    /\ pc = "returned"
    /\ cfg.parallel > 1
    /\ NumBatches = 3
    /\ foldOrder = <<3, 1, 2>>
    /\ state = <<"triggered", "failed", "error">>

\* C2: in parallel mode at most `parallel` trigger_dag_run calls, and so at
\* most `parallel` external commands, are in progress at any time.
AtMostParallelInFlight ==
    cfg.parallel > 1 =>
        /\ Cardinality(running) <= cfg.parallel
        /\ Cardinality(Invoking) <= cfg.parallel

\* two workers both running the command while a third batch waits in the queue
AtMostParallelWitness ==
    /\ cfg.parallel = 2
    /\ NumBatches = 3
    /\ Cardinality(Invoking) = 2
    /\ queue = <<3>>

\* C3: with dry_run set, in either mode, the command is never executed for
\* any batch and every planned batch ends with status dry_run.
DryRunNeverExecutes ==
    cfg.dryRun =>
        /\ \A b \in DOMAIN state :
            /\ execs[b] = 0
            /\ completion[b] = "none"
            /\ state[b] \in {"planned", "dry_run"}
        /\ pc = "returned" =>
            /\ \A b \in DOMAIN state : state[b] = "dry_run"
            /\ Get(results, "dry_run") = NumBatches

\* a dry run over three batches has returned, each batch called once
DryRunWitness ==
    /\ cfg.dryRun
    /\ pc = "returned"
    /\ NumBatches = 3
    /\ Len(callOrder) = 3
    /\ Get(results, "dry_run") = 3

\* C4: a fault of one invocation becomes the status error of that batch only;
\* the run is never aborted, every planned batch is still invoked once and
\* counted, and the error count is the number of faulted batches (all of them
\* when every invocation faults).
FaultContained ==
    /\ pc # "aborted"
    /\ \A b \in DOMAIN state :
        /\ completion[b] \in Faults => state[b] = "error"
        /\ completion[b] \in Completion \ Faults => state[b] # "error"
    /\ pc = "returned" =>
        /\ \A b \in DOMAIN state :
            /\ Occurrences(callOrder, b) = 1
            /\ Occurrences(foldOrder, b) = 1
            /\ ~cfg.dryRun => execs[b] = 1
        /\ Get(results, "error") =
              Cardinality({b \in DOMAIN state : completion[b] \in Faults})

\* the first of three batches faulted, the others were still invoked and the
\* run returned
FaultContainedWitness ==
    /\ pc = "returned"
    /\ NumBatches = 3
    /\ completion = <<"cannot_start", "rc_zero", "timeout">>
    /\ Get(results, "error") = 2

\* C5: the planner produces ceil(max(0, total - startOffset) / batchSize)
\* offsets, the first startOffset, each next one batchSize larger, all below
\* total; none when startOffset >= total; [0,3,6,9] for total=10, batchSize=3.
PlannerOffsets ==
    pc # "start" =>
        /\ Len(offsets) =
              CeilDiv(Max0(cfg.total - cfg.startOffset), cfg.batchSize)
        /\ \A j \in 1..Len(offsets) :
            /\ offsets[j] = cfg.startOffset + (j - 1) * cfg.batchSize
            /\ offsets[j] < cfg.total
        /\ cfg.startOffset >= cfg.total => offsets = <<>>
        /\ (cfg.total = 10 /\ cfg.batchSize = 3 /\ cfg.startOffset = 0)
              => offsets = <<0, 3, 6, 9>>

\* the planner has run on total=10, batchSize=3, startOffset=0
PlannerOffsetsWitness ==
    /\ pc # "start"
    /\ cfg.total = 10 /\ cfg.batchSize = 3 /\ cfg.startOffset = 0
    /\ offsets = <<0, 3, 6, 9>>

\* C6: each batch goes planned -> invoking -> triggered/failed/error, or
\* planned -> dry_run without the command ever running; it is called, run
\* and counted at most once, a terminal status never changes and is never
\* followed by another call, and at return every batch has a terminal status.
BatchLifecycle ==
    [][\A b \in DOMAIN state :
        /\ state'[b] # state[b] =>
            \/ state[b] = "planned" /\ state'[b] = "invoking" /\ ~cfg.dryRun
            \/ state[b] = "planned" /\ state'[b] = "dry_run" /\ execs'[b] = 0
            \/ state[b] = "invoking"
                 /\ state'[b] \in {"triggered", "failed", "error"}
        /\ execs'[b] <= 1
        /\ Occurrences(callOrder', b) <= 1
        /\ Occurrences(foldOrder', b) <= 1
        /\ state[b] \in Terminal =>
            /\ state'[b] = state[b]
            /\ execs'[b] = execs[b]
            /\ b \notin running'
            /\ Occurrences(queue', b) = 0
            /\ Occurrences(callOrder', b) = Occurrences(callOrder, b)
        /\ pc' = "returned" => state'[b] \in Terminal
    ]_vars

\* a real run returned with one batch of each real terminal status, each run once
BatchLifecycleWitness ==
    /\ pc = "returned"
    /\ ~cfg.dryRun
    /\ state = <<"failed", "error", "triggered">>
    /\ execs = <<1, 1, 1>>

\* C7: in sequential mode batches are called one at a time in planned order,
\* statuses are counted in planned order, and the call for the next batch
\* starts only after the status of the previous one has been counted.
SequentialOrder ==
    cfg.parallel = 1 =>
        /\ \A j \in 1..Len(callOrder) : callOrder[j] = j
        /\ \A j \in 1..Len(foldOrder) : foldOrder[j] = j
        /\ Len(foldOrder) <= Len(callOrder)
        /\ Len(callOrder) <= Len(foldOrder) + 1
        /\ Cardinality(running) <= 1
        /\ Cardinality(Invoking) <= 1
        /\ \A j \in 1..(NumBatches - 1) : offsets[j] < offsets[j + 1]

\* the third batch is being invoked after the first two were counted in order
SequentialOrderWitness ==
    /\ cfg.parallel = 1
    /\ NumBatches = 3
    /\ callOrder = <<1, 2, 3>>
    /\ foldOrder = <<1, 2>>
    /\ state[3] = "invoking"

\* C8: in sequential mode time.sleep is called after the status of every
\* batch but the last is counted, when delay > 0 and not dry_run, and never
\* otherwise: n-1 sleeps in a returned run of n >= 1 batches, else 0.
SleepApplies == ~cfg.dryRun /\ cfg.delay > 0

SequentialSleeps ==
    cfg.parallel = 1 =>
        /\ pc = "sleep" => SleepApplies /\ i < NumBatches
        /\ ~SleepApplies => sleeps = 0
        /\ SleepApplies =>
              sleeps = IF Len(foldOrder) < NumBatches THEN Len(foldOrder)
                       ELSE Max0(NumBatches - 1)
        /\ pc = "returned" =>
              sleeps = IF SleepApplies /\ NumBatches >= 1
                       THEN NumBatches - 1 ELSE 0

\* a sequential real run of three batches with a positive delay returned
\* after two sleeps
SequentialSleepsWitness ==
    /\ cfg.parallel = 1
    /\ SleepApplies
    /\ pc = "returned"
    /\ NumBatches = 3
    /\ sleeps = 2

\* C9: in parallel mode the run returns only when no batch is queued or in
\* progress, every planned batch has a terminal status and it was counted.
ParallelReturnsAfterAll ==
    (cfg.parallel > 1 /\ pc = "returned") =>
        /\ queue = <<>>
        /\ running = {}
        /\ \A b \in DOMAIN state :
            /\ state[b] \in Terminal
            /\ Occurrences(foldOrder, b) = 1
        /\ \A k \in Terminal : Get(results, k) = CountWhere(k)

\* a parallel real run over three batches with two workers has returned
ParallelReturnsWitness ==
    /\ cfg.parallel = 2
    /\ ~cfg.dryRun
    /\ pc = "returned"
    /\ NumBatches = 3
    /\ Len(foldOrder) = 3

\* C10: the returned counts are a function of the configuration and of how
\* the command ends for each planned offset alone: the same for every
\* interleaving and counting order, and the same in both modes.
ExpectedStatus(b) ==
    IF cfg.dryRun THEN "dry_run"
    ELSE IF completion[b] = "rc_zero" THEN "triggered"
    ELSE IF completion[b] = "rc_nonzero" THEN "failed"
    ELSE "error"

ExpectedCount(k) ==
    Cardinality({b \in DOMAIN state : ExpectedStatus(b) = k})

DeterministicCounts ==
    pc = "returned" =>
        /\ DOMAIN results \subseteq Terminal
        /\ \A k \in Terminal : Get(results, k) = ExpectedCount(k)
        /\ \A b \in DOMAIN state : cfg.dryRun \/ completion[b] \in Completion

\* a parallel run returned after counting in reverse of planned order
DeterministicCountsWitness ==
    /\ pc = "returned"
    /\ cfg.parallel = 3
    /\ completion = <<"rc_nonzero", "rc_zero", "exception">>
    /\ foldOrder = <<3, 2, 1>>

\* C11 (as stated): the summary starts empty and holds entries only for
\* statuses that occurred; a dry run over n >= 1 batches returns exactly
\* {dry_run: n}.
FoldedWith(k) ==
    Cardinality({j \in 1..Len(foldOrder) : state[foldOrder[j]] = k})

SummaryOnlyOccurred ==
    /\ (pc # "start" /\ foldOrder = <<>>) => DOMAIN results = {}
    /\ pc = "returned" =>
        /\ \A k \in DOMAIN results : results[k] >= 1
        /\ (cfg.dryRun /\ NumBatches >= 1) =>
              (DOMAIN results = {"dry_run"} /\ results["dry_run"] = NumBatches)

\* C11 (amended): the summary starts as {triggered: 0, failed: 0}; every
\* counted status adds one to its entry, creating it when absent, so the
\* returned summary holds triggered, failed and the other statuses that
\* occurred; a dry run over n >= 1 batches returns
\* {triggered: 0, failed: 0, dry_run: n}.
SummarySeededWithZeros ==
    pc # "start" =>
        /\ foldOrder = <<>> =>
              (DOMAIN results = {"triggered", "failed"}
                 /\ results["triggered"] = 0 /\ results["failed"] = 0)
        /\ DOMAIN results =
              {"triggered", "failed"} \cup {k \in Terminal : FoldedWith(k) >= 1}
        /\ \A k \in DOMAIN results : results[k] = FoldedWith(k)
        /\ (pc = "returned" /\ cfg.dryRun /\ NumBatches >= 1) =>
              /\ DOMAIN results = {"triggered", "failed", "dry_run"}
              /\ results["triggered"] = 0
              /\ results["failed"] = 0
              /\ results["dry_run"] = NumBatches

\* a parallel dry run over three batches has returned its summary
SummarySeededWitness ==
    /\ pc = "returned"
    /\ cfg.dryRun
    /\ cfg.parallel > 1
    /\ NumBatches = 3
    /\ DOMAIN results = {"triggered", "failed", "dry_run"}
    /\ results["dry_run"] = 3

\* C12: a real invocation ends triggered for return code 0, failed with the
\* command's stderr for a non-zero return code, error with the exception text
\* when the command cannot be started, times out or raises; nothing else, and
\* never failed for a timeout or a start failure.
RealClassification ==
    ~cfg.dryRun =>
        \A b \in DOMAIN state :
            /\ state[b] \in {"planned", "invoking", "triggered", "failed", "error"}
            /\ completion[b] = "none" <=> state[b] \in {"planned", "invoking"}
            /\ completion[b] = "rc_zero" <=>
                  (state[b] = "triggered" /\ message[b] = "none")
            /\ completion[b] = "rc_nonzero" <=>
                  (state[b] = "failed" /\ message[b] = "stderr")
            /\ completion[b] \in Faults <=>
                  (state[b] = "error" /\ message[b] = "str(e)")
            /\ state[b] \in {"planned", "invoking"} => message[b] = "none"

\* three real invocations ended with a non-zero code, a timeout and code 0
RealClassificationWitness ==
    /\ ~cfg.dryRun
    /\ completion = <<"rc_nonzero", "timeout", "rc_zero">>
    /\ state = <<"failed", "error", "triggered">>
    /\ message = <<"stderr", "str(e)", "none">>

\* C13: when every invocation ends (or times out), the run eventually
\* returns its summary, in both modes and whatever the statuses, and it is
\* never aborted by the status of a batch.
RunEventuallyReturns ==
    <>(pc = "returned") /\ [](pc # "aborted")

\* a run whose three batches all ended failed or error has returned
AllFailedReturnWitness ==
    /\ pc = "returned"
    /\ NumBatches = 3
    /\ state = <<"error", "failed", "error">>
    /\ Get(results, "error") = 2
    /\ Get(results, "failed") = 1

\* C14: in parallel mode the summary is written only by the thread running
\* run_batch_processing, when it counts a finished future: a step of a pool
\* worker (taking a work item, running trigger_dag_run) leaves the summary
\* unchanged, every write adds exactly one to the entry of the batch being
\* counted, and so each entry is the number of batches counted with it.
WorkerStep ==
    \/ running' # running
    \/ state' # state
    \/ callOrder' # callOrder

SingleWriter ==
    [][(cfg.parallel > 1 /\ pc # "start") =>
        /\ WorkerStep => results' = results
        /\ results' # results =>
            /\ pc = "collect"
            /\ Len(foldOrder') = Len(foldOrder) + 1
            /\ results' = Fold(results, state[foldOrder'[Len(foldOrder')]])
            /\ UNCHANGED <<state, running, queue, callOrder>>
        /\ \A k \in DOMAIN results' : results'[k] = FoldedWith(k)'
    ]_vars

\* the first batch has been counted while the other two are still being
\* run by the two workers
SingleWriterWitness ==
    /\ cfg.parallel = 2
    /\ pc = "collect"
    /\ foldOrder = <<1>>
    /\ Invoking = {2, 3}

\* C15: every batch handed to trigger_dag_run is given batch_size itself,
\* the last one included: its end offset + batch_size may pass total, by
\* less than batch_size, and no earlier batch passes total.
UnclippedBatchSize ==
    \A b \in DOMAIN state :
        (Called(b) \/ Occurrences(queue, b) > 0) =>
            /\ sizeArg[b] = cfg.batchSize
            /\ offsets[b] + sizeArg[b] < cfg.total + cfg.batchSize
            /\ b < NumBatches => offsets[b] + sizeArg[b] <= cfg.total

\* the last of two batches of size 2 over 3 records was invoked for [2, 4)
UnclippedBatchSizeWitness ==
    /\ cfg.total = 3 /\ cfg.batchSize = 2 /\ cfg.startOffset = 0
    /\ Called(2)
    /\ state[2] = "invoking"
    /\ offsets[2] + sizeArg[2] = 4

\* C16: in parallel mode time.sleep is never called, whatever delay and
\* dry_run are.
ParallelNeverSleeps ==
    cfg.parallel > 1 => (sleeps = 0 /\ pc # "sleep")

\* a parallel real run with a positive delay returned without any sleep
ParallelNeverSleepsWitness ==
    /\ cfg.parallel > 1
    /\ cfg.delay > 0
    /\ ~cfg.dryRun
    /\ pc = "returned"
    /\ NumBatches = 3
    /\ sleeps = 0

\* C17: for startOffset < total the intervals [offset, offset + batchSize) of
\* the planned batches are contiguous and pairwise disjoint, start at
\* startOffset, and every record index of [startOffset, total) lies in
\* exactly one of them.
Covering(r) ==
    {j \in 1..Len(offsets) :
        offsets[j] <= r /\ r < offsets[j] + cfg.batchSize}

BatchesPartitionRange ==
    (pc # "start" /\ cfg.startOffset < cfg.total) =>
        /\ Len(offsets) >= 1
        /\ offsets[1] = cfg.startOffset
        /\ \A j \in 1..(Len(offsets) - 1) :
              offsets[j] + cfg.batchSize = offsets[j + 1]
        /\ \A j, k \in 1..Len(offsets) :
              j # k => \/ offsets[j] + cfg.batchSize <= offsets[k]
                       \/ offsets[k] + cfg.batchSize <= offsets[j]
        /\ \A r \in cfg.startOffset..(cfg.total - 1) :
              Cardinality(Covering(r)) = 1

\* records 1..9 planned in batches of 3 from offset 1
BatchesPartitionWitness ==
    /\ pc # "start"
    /\ cfg.total = 10 /\ cfg.batchSize = 3 /\ cfg.startOffset = 1
    /\ offsets = <<1, 4, 7>>

\* C18: for a start offset s that is a multiple of batchSize with
\* 0 <= s <= total, the plan from 0 up to s followed by the plan from s up to
\* total is the plan from 0 up to total, without gap or duplicate.
ResumeLossless ==
    (pc # "start" /\ cfg.startOffset % cfg.batchSize = 0
       /\ cfg.startOffset <= cfg.total) =>
        /\ Range(0, cfg.startOffset, cfg.batchSize) \o offsets
              = Range(0, cfg.total, cfg.batchSize)
        /\ \A j \in 1..Len(offsets) :
              /\ offsets[j] >= cfg.startOffset
              /\ Occurrences(Range(0, cfg.startOffset, cfg.batchSize),
                             offsets[j]) = 0
              /\ Occurrences(offsets, offsets[j]) = 1

\* a plan over 10 records in batches of 2 resumed at offset 4
ResumeLosslessWitness ==
    /\ pc # "start"
    /\ cfg.total = 10 /\ cfg.batchSize = 2 /\ cfg.startOffset = 4
    /\ offsets = <<4, 6, 8>>

\* C19: at every point of a run, in both modes, no count ever decreases or
\* disappears, the counts sum to the number of statuses counted so far, and
\* that number is at most the number of batches whose invocation has
\* finished, which is at most the number of planned batches.
FinishedBatches == {b \in DOMAIN state : state[b] \in Terminal}

CountsMatchFolds ==
    /\ SumCounts(results) = Len(foldOrder)
    /\ Len(foldOrder) <= Cardinality(FinishedBatches)
    /\ Cardinality(FinishedBatches) <= NumBatches

CountsGrowWithFolds ==
    [][/\ CountsMatchFolds
       /\ CountsMatchFolds'
       /\ \A k \in DOMAIN results :
             k \in DOMAIN results' /\ results'[k] >= results[k]
    ]_vars

\* one status counted while two batches have finished and the third has not
CountsGrowWitness ==
    /\ cfg.parallel = 2
    /\ NumBatches = 3
    /\ Len(foldOrder) = 1
    /\ SumCounts(results) = 1
    /\ Cardinality(FinishedBatches) = 2
====
